---- MODULE Spec2Model ----
(***************************************************************************)
(* Model of the OptiSigns help-center mirror: main.py drives one pipeline  *)
(* run (scraper.OptiSignsScraper.scrape_all, then                          *)
(* vector_store_manager.VectorStoreManager.upload_delta_files).  The       *)
(* process is single-threaded; every action below is one step of that      *)
(* sequential program, and Crash is the process being killed between two   *)
(* steps.  The remote services (catalog pages, article fetch, register,    *)
(* attach) answer nondeterministically at the moment they are called.      *)
(* Spec is the whole pipeline from an empty installation; UploaderSpec is   *)
(* upload_delta_files called with any list; EngineSpec is scrape_all        *)
(* started on any store, killed in its loop and started again.              *)
(***************************************************************************)
EXTENDS Integers, Sequences, FiniteSets, TLC

\* ---------------------------------------------------------------- bounds
NumIds == 2        \* article ids are 1..NumIds
NumTexts == 1      \* distinct non-empty article bodies
NumUrls == 2       \* distinct html_url values
NumTitles == 1     \* distinct titles
NumStamps == 2     \* distinct updated_at values of the remote article
MaxRuns == 2       \* pipeline runs (process starts) explored
MaxPages == 2      \* catalog pages the server offers before it stops
PerPage == 1       \* most items the server puts on one page
MaxLimit == 2      \* largest value of scrape_all's limit explored
MaxDelta == 3      \* longest list handed to upload_delta_files when called on its own

IDS == 1..NumIds
Html == 0..(NumTexts + 1)   \* 0: no body, 1: markup without text, 2..: text
Urls == 1..NumUrls
Titles == 1..NumTitles
Stamps == 1..NumStamps

VARIABLES
    \* durable state, survives the process
    metaFile,       \* articles_metadata.json: [exists, content (tokens written)]
    files,          \* articles/ directory: filename -> markdown
    registered,     \* remote file objects created by POST /files
    attached,       \* remote objects attached to the vector store
    \* process state
    pc, run, apiKey, limit,
    page, articles,                       \* fetch_articles_list locals
    articles_to_scrape, i, metadata, stats, new_articles,   \* scrape_all locals
    upIdx, uploaded_count, failed_count, file_id,           \* upload_delta_files locals
    result,                                                 \* what upload_delta_files returned
    exitCode,
    \* history of the current run and of the one before
    calls,          \* external calls / writes / sleeps of this run, in order
    pageLog,        \* catalog responses received by this run
    classLog,       \* per processed descriptor: id, response, class taken
    scrapeOK,       \* scrape_all returned normally in this run
    prevLog,        \* classified part of classLog of the preceding run, when it completed
    crashPending,   \* DeltaSet files not yet uploaded when the preceding run was killed
    storeAtStart,   \* the store file as this run (when idle: the last run) found it
    cacheAtStart,   \* the articles/ directory as this run found it
    crashLog,       \* classified part of classLog of the preceding run, when it was killed in its loop
    crashMeta       \* the metadata dict that run held when it was killed

vars == <<metaFile, files, registered, attached, pc, run, apiKey, limit,
          page, articles, articles_to_scrape, i, metadata, stats, new_articles,
          upIdx, uploaded_count, failed_count, file_id, result, exitCode,
          calls, pageLog, classLog, scrapeOK, prevLog, crashPending,
          storeAtStart, cacheAtStart, crashLog, crashMeta>>

durable == <<metaFile, files, registered, attached>>
listerVars == <<page, articles>>
engineVars == <<articles_to_scrape, i, metadata, stats, new_articles>>
uploadVars == <<upIdx, uploaded_count, failed_count, file_id, result>>
before == <<prevLog, crashPending, storeAtStart, cacheAtStart, crashLog, crashMeta>>

\* ------------------------------------------------------------- helpers
Min(a, b) == IF a < b THEN a ELSE b

Range(s) == {s[k] : k \in DOMAIN s}

Last(s) == s[Len(s)]

Distinct(s) == \A a, b \in DOMAIN s : a # b => s[a] # s[b]

RECURSIVE SeqsUpTo(_, _)
SeqsUpTo(S, n) ==
    IF n = 0 THEN {<<>>}
    ELSE {<<>>} \cup {<<x>> \o t : x \in S, t \in SeqsUpTo(S, n - 1)}

\* sequences without repetition over S, of length at most n
SeqsOver(S, n) == {s \in SeqsUpTo(S, n) : Distinct(s)}

Event(op, arg) == [op |-> op, arg |-> arg]

\* a call to the file service together with whether it succeeded
Outcome(op, arg, ok) == [op |-> op, arg |-> arg, ok |-> ok]

CallsOf(op) == SelectSeq(calls, LAMBDA e : e.op = op)

\* f"{article_id}.md"
Filename(id) == <<id, "md">>

NoObject == [name |-> <<0, "md">>, content |-> <<>>]

ZeroStats == [added |-> 0, updated |-> 0, skipped |-> 0, failed |-> 0]

\* upload_delta_files has not returned
NoResult == [returned |-> FALSE, uploaded |-> 0, failed |-> 0, total |-> 0]

\* ------------------------------------------------ the metadata store file
\* json.dump writes the mapping as a stream of chunks; the file holds the
\* chunks written so far.
Dump(meta) ==
    <<[tok |-> "open"]>>
    \o [k \in DOMAIN meta |-> [tok |-> "entry", rec |-> meta[k]]]
    \o <<[tok |-> "close"]>>

\* json.load succeeds on a complete document only
Parses(content) ==
    /\ Len(content) >= 2
    /\ content[1].tok = "open"
    /\ content[Len(content)].tok = "close"
    /\ \A k \in 2..(Len(content) - 1) : content[k].tok = "entry"

Parse(content) == [k \in 1..(Len(content) - 2) |-> content[k + 1].rec]

\* variant: the store file is never read back
load_metadata_forgets(file) == [res |-> "ok", meta |-> <<>>]

\* load_metadata: "ok" with the mapping, or "error" when json.load raises
load_metadata(file) ==
    IF ~file.exists THEN [res |-> "ok", meta |-> <<>>]
    ELSE IF Parses(file.content) THEN [res |-> "ok", meta |-> Parse(file.content)]
    ELSE [res |-> "error", meta |-> <<>>]

\* metadata is a dict keyed by str(id), kept in insertion order
HasKey(meta, id) == \E k \in DOMAIN meta : meta[k].key = id

Lookup(meta, id) == meta[CHOOSE k \in DOMAIN meta : meta[k].key = id]

Keys(meta) == {meta[k].key : k \in DOMAIN meta}

\* -------------------------------------------------- content normalisation
\* clean_html_to_markdown: "" for a missing body, otherwise the header line
\* carrying the url followed by the cleaned text (nothing for blank markup)
clean_html_to_markdown(html, url) ==
    IF html = 0 THEN <<>>
    ELSE <<url>> \o (IF html = 1 THEN <<>> ELSE <<html>>)

HeaderOnly(url) == <<url>>

\* hashlib.md5 of the markdown, taken as collision free on the texts explored
get_article_hash(markdown) ==
    IF markdown = <<>> THEN 0
    ELSE markdown[1] * (NumTexts + 2) + (IF Len(markdown) > 1 THEN markdown[2] ELSE 0)

\* responses of GET articles/{id}.json: no article (status 0 is a raised
\* exception), an article without text, or an article with text
FetchResponses ==
    {[status |-> s, hasArticle |-> FALSE, body |-> 0, html_url |-> 1, title |-> 1,
      updated_at |-> 1] : s \in {0, 200, 500}}
    \cup
    {[status |-> 200, hasArticle |-> TRUE, body |-> b, html_url |-> 1, title |-> 1,
      updated_at |-> 1] : b \in {0, 1}}
    \cup
    {[status |-> 200, hasArticle |-> TRUE, body |-> b, html_url |-> u, title |-> t,
      updated_at |-> a] : b \in Html \ {0, 1}, u \in Urls, t \in Titles, a \in Stamps}

\* fetch_article_content: the article, or None (status 0 is a raised exception)
fetch_article_content(resp) == resp.status = 200 /\ resp.hasArticle

\* variant: the header-only stub is not recognised as empty content
scrape_article_usable_stub(resp) ==
    /\ fetch_article_content(resp)
    /\ clean_html_to_markdown(resp.body, resp.html_url) # <<>>

\* scrape_article returns a record, not None
scrape_article_usable(resp) ==
    /\ fetch_article_content(resp)
    /\ LET md == clean_html_to_markdown(resp.body, resp.html_url)
       IN  md # <<>> /\ md # HeaderOnly(resp.html_url)

\* variant: the remote updated_at enters the fingerprint
scrape_article_stamped(resp, now) ==
    LET md == clean_html_to_markdown(resp.body, resp.html_url)
    IN  [markdown |-> md,
         hash |-> get_article_hash(md) + (resp.updated_at - 1) * (NumUrls + 1) * (NumTexts + 2),
         url |-> resp.html_url, title |-> resp.title, updated_at |-> resp.updated_at,
         scraped_at |-> now]

\* the scraped record
scrape_article(resp, now) ==
    LET md == clean_html_to_markdown(resp.body, resp.html_url)
    IN  [markdown |-> md, hash |-> get_article_hash(md), url |-> resp.html_url,
         title |-> resp.title, updated_at |-> resp.updated_at, scraped_at |-> now]

\* ------------------------------------------------------------ Source Lister
\* responses of GET articles.json?page=p: status 0 is a raised exception;
\* a page lists ids not listed before, and the server stops offering a next
\* page at MaxPages
PageResponses(p, sofar) ==
    {[status |-> s, items |-> <<>>, next_page |-> FALSE] : s \in {0, 500}}
    \cup
    {[status |-> 200, items |-> it, next_page |-> n]
        : it \in SeqsOver(IDS \ Range(sofar), PerPage),
          n \in IF p < MaxPages THEN BOOLEAN ELSE {FALSE}}

\* the page's items are appended to the accumulated list
PageAccumulate(sofar, resp) ==
    IF resp.status # 200 THEN sofar
    ELSE IF resp.items = <<>> THEN sofar
    ELSE sofar \o resp.items

\* variant: a non-success response does not end the pagination
PageBreaks_noStatus(resp) ==
    \/ resp.status = 200 /\ resp.items = <<>>
    \/ resp.status = 200 /\ ~resp.next_page

\* the while-loop of fetch_articles_list breaks after this response
PageBreaks(resp) ==
    \/ resp.status # 200
    \/ resp.items = <<>>
    \/ ~resp.next_page

\* ------------------------------------------------- Change-Detection Engine
\* variant: the slice is one too long
Truncate_offByOne(all, lim) == SubSeq(all, 1, Min(lim + 1, Len(all)))

\* all_articles[:limit]
Truncate(all, lim) == SubSeq(all, 1, Min(lim, Len(all)))

\* variant: the hash comparison is inverted
Classify_inverted(meta, id, hash) ==
    IF HasKey(meta, id)
    THEN IF Lookup(meta, id).hash = hash THEN "updated" ELSE "skipped"
    ELSE "added"

\* the branch taken at scraper.py 213-237
Classify(meta, id, hash) ==
    IF HasKey(meta, id)
    THEN IF Lookup(meta, id).hash # hash THEN "updated" ELSE "skipped"
    ELSE "added"

\* variant: the updated branch rewrites the whole record
StoreAfter_rewrites(meta, cls, id, data) ==
    IF cls = "added"
    THEN Append(meta, [key |-> id, hash |-> data.hash, url |-> data.url,
                       title |-> data.title, filename |-> Filename(id),
                       last_updated |-> data.scraped_at])
    ELSE IF cls = "updated"
    THEN [k \in DOMAIN meta |->
            IF meta[k].key = id
            THEN [key |-> id, hash |-> data.hash, url |-> data.url,
                  title |-> data.title, filename |-> Filename(id),
                  last_updated |-> data.scraped_at]
            ELSE meta[k]]
    ELSE meta

\* the metadata dict after the branch
StoreAfter(meta, cls, id, data) ==
    IF cls = "added"
    THEN Append(meta, [key |-> id, hash |-> data.hash, url |-> data.url,
                       title |-> data.title, filename |-> Filename(id),
                       last_updated |-> data.scraped_at])
    ELSE IF cls = "updated"
    THEN [k \in DOMAIN meta |->
            IF meta[k].key = id
            THEN [meta[k] EXCEPT !.hash = data.hash, !.last_updated = data.scraped_at]
            ELSE meta[k]]
    ELSE meta

\* variant: the file is written on every branch
save_article_always(fs, cls, id, data) == (Filename(id) :> data.markdown) @@ fs

\* variant: the file is written when the article is new, not when it changed
save_article_addedOnly(fs, cls, id, data) ==
    IF cls = "added" THEN (Filename(id) :> data.markdown) @@ fs ELSE fs

\* save_article is called on the added and updated branches
save_article(fs, cls, id, data) ==
    IF cls \in {"added", "updated"} THEN (Filename(id) :> data.markdown) @@ fs ELSE fs

\* variant: the filename is appended on the unchanged branch too
DeltaAfter_always(delta, cls, id) == Append(delta, Filename(id))

\* new_articles.append(filename) on the added and updated branches
DeltaAfter(delta, cls, id) ==
    IF cls \in {"added", "updated"} THEN Append(delta, Filename(id)) ELSE delta

\* variant: an article without content is not counted
StatsAfter_dropsFailed(st, cls) == IF cls = "failed" THEN st ELSE [st EXCEPT ![cls] = @ + 1]

\* stats[...] += 1 on the branch taken
StatsAfter(st, cls) == [st EXCEPT ![cls] = @ + 1]

\* variant: the dict is persisted after every descriptor
StoreFileInLoop_eager(file, meta) == [exists |-> TRUE, content |-> Dump(meta)]

\* the store file after one iteration: the loop changes the dict in memory
\* only, save_metadata is called once after the loop
StoreFileInLoop(file, meta) == file

\* events of one loop iteration that reaches the classification
ClassifiedEvents(cls, id) ==
    (IF cls \in {"added", "updated"} THEN <<Event("write", Filename(id))>> ELSE <<>>)
    \o <<Event("sleep", <<>>)>>

\* ------------------------------------------------------------------- Init
Init ==
    /\ metaFile = [exists |-> FALSE, content |-> <<>>]
    /\ files = <<>>
    /\ registered = {}
    /\ attached = {}
    /\ pc = "idle"
    /\ run = 0
    /\ apiKey = TRUE
    /\ limit = 0
    /\ page = 1
    /\ articles = <<>>
    /\ articles_to_scrape = <<>>
    /\ i = 1
    /\ metadata = <<>>
    /\ stats = ZeroStats
    /\ new_articles = <<>>
    /\ upIdx = 1
    /\ uploaded_count = 0
    /\ failed_count = 0
    /\ file_id = NoObject
    /\ result = NoResult
    /\ exitCode = 0
    /\ calls = <<>>
    /\ pageLog = <<>>
    /\ classLog = <<>>
    /\ scrapeOK = FALSE
    /\ prevLog = <<>>
    /\ crashPending = {}
    /\ storeAtStart = metaFile
    /\ cacheAtStart = files
    /\ crashLog = <<>>
    /\ crashMeta = <<>>

\* the process memory of a fresh process
FreshProcess ==
    /\ page' = 1
    /\ articles' = <<>>
    /\ articles_to_scrape' = <<>>
    /\ i' = 1
    /\ metadata' = <<>>
    /\ stats' = ZeroStats
    /\ new_articles' = <<>>
    /\ upIdx' = 1
    /\ uploaded_count' = 0
    /\ failed_count' = 0
    /\ file_id' = NoObject
    /\ result' = NoResult
    /\ exitCode' = 0

\* main() is entered: the environment holds OPENAI_API_KEY or not, and
\* scrape_all is called with some limit; fetch_articles_list starts at page 1
StartRun ==
    /\ pc = "idle"
    /\ run < MaxRuns
    /\ run' = run + 1
    /\ apiKey' \in BOOLEAN
    /\ limit' \in 0..MaxLimit
    /\ pc' = "list"
    /\ storeAtStart' = metaFile
    /\ cacheAtStart' = files
    /\ UNCHANGED <<durable, listerVars, engineVars, uploadVars, exitCode,
                   calls, pageLog, classLog, scrapeOK, prevLog, crashPending,
                   crashLog, crashMeta>>

\* one iteration of the while-loop of fetch_articles_list
ListPage ==
    /\ pc = "list"
    /\ \E resp \in PageResponses(page, articles) :
        /\ pageLog' = Append(pageLog, resp)
        /\ articles' = PageAccumulate(articles, resp)
        /\ IF PageBreaks(resp)
           THEN /\ pc' = "listed"
                /\ page' = page
                /\ calls' = Append(calls, Event("page", page))
           ELSE /\ pc' = "list"
                /\ page' = page + 1
                /\ calls' = calls \o <<Event("page", page), Event("sleep", <<>>)>>
    /\ UNCHANGED <<durable, run, apiKey, limit, engineVars, uploadVars, exitCode,
                   classLog, scrapeOK, before>>

\* scrape_all after the listing: the early return on an empty list, or the
\* truncation to limit and load_metadata (whose exception main() catches)
ScrapeBegin ==
    /\ pc = "listed"
    /\ IF articles = <<>>
       THEN /\ scrapeOK' = TRUE
            /\ pc' = "step2"
            /\ UNCHANGED engineVars
       ELSE LET ld == load_metadata(metaFile)
            IN  IF ld.res = "error"
                THEN /\ scrapeOK' = FALSE
                     /\ pc' = "step2"
                     /\ UNCHANGED engineVars
                ELSE /\ articles_to_scrape' = Truncate(articles, limit)
                     /\ metadata' = ld.meta
                     /\ pc' = "loop"
                     /\ UNCHANGED <<i, stats, new_articles, scrapeOK>>
    /\ UNCHANGED <<durable, run, apiKey, limit, listerVars, uploadVars, exitCode,
                   calls, pageLog, classLog, before>>

\* one iteration of the for-loop of scrape_all
ProcessArticle ==
    /\ pc = "loop"
    /\ i <= Len(articles_to_scrape)
    /\ \E resp \in FetchResponses :
        LET id == articles_to_scrape[i]
        IN  IF ~scrape_article_usable(resp)
            THEN /\ stats' = StatsAfter(stats, "failed")
                 /\ classLog' = Append(classLog, [id |-> id, resp |-> resp, cls |-> "failed"])
                 /\ calls' = Append(calls, Event("fetch", id))
                 /\ UNCHANGED <<metadata, new_articles, files>>
            ELSE LET data == scrape_article(resp, run)
                     cls == Classify(metadata, id, data.hash)
                 IN  /\ stats' = StatsAfter(stats, cls)
                     /\ files' = save_article(files, cls, id, data)
                     /\ metadata' = StoreAfter(metadata, cls, id, data)
                     /\ new_articles' = DeltaAfter(new_articles, cls, id)
                     /\ classLog' = Append(classLog, [id |-> id, resp |-> resp, cls |-> cls])
                     /\ calls' = calls \o <<Event("fetch", id)>> \o ClassifiedEvents(cls, id)
    /\ i' = i + 1
    /\ metaFile' = StoreFileInLoop(metaFile, metadata')
    /\ UNCHANGED <<registered, attached, pc, run, apiKey, limit, listerVars,
                   articles_to_scrape, uploadVars, exitCode, pageLog, scrapeOK,
                   before>>

\* save_metadata, first half: open(metadata_file, 'w') truncates the file
SaveOpen ==
    /\ pc = "loop"
    /\ i > Len(articles_to_scrape)
    /\ metaFile' = [exists |-> TRUE, content |-> <<>>]
    /\ calls' = Append(calls, Event("save", <<>>))
    /\ pc' = "dump"
    /\ UNCHANGED <<files, registered, attached, run, apiKey, limit, listerVars,
                   engineVars, uploadVars, exitCode, pageLog, classLog, scrapeOK,
                   before>>

\* save_metadata, second half: json.dump writes the next chunk; after the
\* last one the file is closed and scrape_all returns
SaveChunk ==
    /\ pc = "dump"
    /\ LET doc == Dump(metadata)
           n == Len(metaFile.content) + 1
       IN  /\ metaFile' = [metaFile EXCEPT !.content = Append(@, doc[n])]
           /\ IF n = Len(doc)
              THEN pc' = "step2" /\ scrapeOK' = TRUE
              ELSE pc' = "dump" /\ scrapeOK' = scrapeOK
    /\ UNCHANGED <<files, registered, attached, run, apiKey, limit, listerVars,
                   engineVars, uploadVars, exitCode, calls, pageLog, classLog,
                   before>>

\* ------------------------------------------------------------ Delta Uploader
\* the files of the DeltaSet from position k on
FilesFrom(delta, k) == {delta[j] : j \in k..Len(delta)}

\* main(), step 2: upload only when new_articles is non-empty;
\* VectorStoreManager() raises ValueError without OPENAI_API_KEY and main
\* returns 1; otherwise upload_delta_files is called with the DeltaSet
Step2 ==
    /\ pc = "step2"
    /\ IF new_articles = <<>>
       THEN pc' = "done" /\ exitCode' = 0
       ELSE IF ~apiKey
            THEN pc' = "done" /\ exitCode' = 1
            ELSE pc' = "upload" /\ exitCode' = 0
    /\ UNCHANGED <<durable, run, apiKey, limit, listerVars, engineVars, uploadVars,
                   calls, pageLog, classLog, scrapeOK, before>>

\* variant: empty input is answered with None, as upload_all_articles does
EmptyResult_none == NoResult

\* the value returned for an empty list of filenames
EmptyResult == [returned |-> TRUE, uploaded |-> 0, failed |-> 0, total |-> 0]

\* the value returned after the loop
UploadResult(up, fl, delta) ==
    [returned |-> TRUE, uploaded |-> up, failed |-> fl, total |-> Len(delta)]

\* upload_delta_files is entered: the early return on an empty list, or
\* the counters are set to 0 and the loop starts
UploadCall ==
    /\ pc = "upload"
    /\ IF new_articles = <<>>
       THEN pc' = "done" /\ result' = EmptyResult
       ELSE pc' = "register" /\ result' = result
    /\ upIdx' = 1
    /\ uploaded_count' = 0
    /\ failed_count' = 0
    /\ UNCHANGED <<durable, run, apiKey, limit, listerVars, engineVars, file_id,
                   exitCode, calls, pageLog, classLog, scrapeOK, before>>

\* the position after file k of the uploader's loop, or its return
UploadNext(k) == IF k < Len(new_articles) THEN "register" ELSE "done"

\* variant: the loop is left at the first file that cannot be registered
AfterRegisterFailure_breaks(k) == "done"

\* `continue` after a failed upload_file: on to the next filename
AfterRegisterFailure(k) == UploadNext(k)

\* variant: the answer of add_file_to_vector_store is not looked at
AttachCounts_ignoresResult(ok, up, fl) == [uploaded |-> up + 1, failed |-> fl]

\* uploaded_count / failed_count after add_file_to_vector_store answered
AttachCounts(ok, up, fl) ==
    IF ok THEN [uploaded |-> up + 1, failed |-> fl]
    ELSE [uploaded |-> up, failed |-> fl + 1]

\* upload_file for the current filename (POST /files): on failure the item
\* is counted failed and the loop continues with the next filename
Register ==
    /\ pc = "register"
    /\ LET f == new_articles[upIdx]
       IN  \E ok \in BOOLEAN :
               IF ok /\ f \in DOMAIN files
               THEN /\ file_id' = [name |-> f, content |-> files[f]]
                    /\ registered' = registered \cup {file_id'}
                    /\ calls' = Append(calls, Outcome("register", f, TRUE))
                    /\ pc' = "attach"
                    /\ UNCHANGED <<upIdx, failed_count, result>>
               ELSE /\ failed_count' = failed_count + 1
                    /\ upIdx' = upIdx + 1
                    /\ calls' = Append(calls, Outcome("register", f, FALSE))
                    /\ pc' = AfterRegisterFailure(upIdx)
                    /\ result' = IF pc' = "done"
                                 THEN UploadResult(uploaded_count, failed_count', new_articles)
                                 ELSE result
                    /\ UNCHANGED <<file_id, registered>>
    /\ UNCHANGED <<metaFile, files, attached, run, apiKey, limit, listerVars,
                   engineVars, uploaded_count, exitCode, pageLog, classLog, scrapeOK,
                   before>>

\* add_file_to_vector_store for the registered object, the count, the sleep
Attach ==
    /\ pc = "attach"
    /\ \E ok \in BOOLEAN :
        /\ attached' = IF ok THEN attached \cup {file_id} ELSE attached
        /\ uploaded_count' = AttachCounts(ok, uploaded_count, failed_count).uploaded
        /\ failed_count' = AttachCounts(ok, uploaded_count, failed_count).failed
        /\ calls' = calls \o <<Outcome("attach", file_id.name, ok), Event("sleep", <<>>)>>
    /\ upIdx' = upIdx + 1
    /\ pc' = UploadNext(upIdx)
    /\ result' = IF pc' = "done"
                 THEN UploadResult(uploaded_count', failed_count', new_articles)
                 ELSE result
    /\ UNCHANGED <<metaFile, files, registered, run, apiKey, limit, listerVars,
                   engineVars, file_id, exitCode, pageLog, classLog, scrapeOK,
                   before>>

\* --------------------------------------------------- process end and crash
\* the DeltaSet files whose upload has not been done at this point
NotUploaded ==
    IF pc \in {"step2", "upload", "register", "attach"} THEN FilesFrom(new_articles, upIdx)
    ELSE IF pc = "done" /\ exitCode = 1 THEN Range(new_articles)
    ELSE {}

\* the process is gone: its memory and this run's history are dropped
ProcessGone ==
    /\ pc' = "idle"
    /\ FreshProcess
    /\ calls' = <<>>
    /\ pageLog' = <<>>
    /\ classLog' = <<>>
    /\ scrapeOK' = FALSE
    /\ crashPending' = NotUploaded
    /\ cacheAtStart' = files
    /\ UNCHANGED storeAtStart
    /\ UNCHANGED <<durable, run, apiKey, limit>>

\* the entries of a run's history that got a classification other than failed
Classified(log) == SelectSeq(log, LAMBDA e : e.cls # "failed")

\* main() returns and the process exits
Finish ==
    /\ pc = "done"
    /\ prevLog' = IF scrapeOK THEN Classified(classLog) ELSE <<>>
    /\ crashLog' = <<>>
    /\ crashMeta' = <<>>
    /\ ProcessGone

\* the process is killed between two steps: its memory is lost, the files
\* and the remote services keep what they hold
Crash ==
    /\ pc \notin {"idle", "done"}
    /\ prevLog' = <<>>
    /\ crashLog' = IF pc = "loop" THEN Classified(classLog) ELSE <<>>
    /\ crashMeta' = IF pc = "loop" THEN metadata ELSE <<>>
    /\ ProcessGone

Next ==
    \/ StartRun
    \/ ListPage
    \/ ScrapeBegin
    \/ ProcessArticle
    \/ SaveOpen
    \/ SaveChunk
    \/ Step2
    \/ UploadCall
    \/ Register
    \/ Attach
    \/ Finish
    \/ Crash

Spec == Init /\ [][Next]_vars

\* ------------------------------------------- the uploader called on its own
\* upload_delta_files takes any list of paths: a VectorStoreManager built
\* with the key, an articles/ directory in some state, and a list that may
\* be empty, repeat a name, or name a file that does not exist
Names == {Filename(id) : id \in IDS}

Markdowns == {clean_html_to_markdown(b, u) : b \in Html \ {0, 1}, u \in Urls}

UploaderInit ==
    /\ metaFile = [exists |-> FALSE, content |-> <<>>]
    /\ files \in UNION {[D -> Markdowns] : D \in SUBSET Names}
    /\ registered = {}
    /\ attached = {}
    /\ pc = "upload"
    /\ run = 1
    /\ apiKey = TRUE
    /\ limit = 0
    /\ page = 1
    /\ articles = <<>>
    /\ articles_to_scrape = <<>>
    /\ i = 1
    /\ metadata = <<>>
    /\ stats = ZeroStats
    /\ new_articles \in SeqsUpTo(Names, MaxDelta)
    /\ upIdx = 1
    /\ uploaded_count = 0
    /\ failed_count = 0
    /\ file_id = NoObject
    /\ result = NoResult
    /\ exitCode = 0
    /\ calls = <<>>
    /\ pageLog = <<>>
    /\ classLog = <<>>
    /\ scrapeOK = FALSE
    /\ prevLog = <<>>
    /\ crashPending = {}
    /\ storeAtStart = metaFile
    /\ cacheAtStart = files
    /\ crashLog = <<>>
    /\ crashMeta = <<>>

UploaderNext ==
    \/ UploadCall
    \/ Register
    \/ Attach

UploaderSpec == UploaderInit /\ [][UploaderNext]_vars

\* --------------------------------------- the engine started on any store
\* scrape_all finds whatever articles_metadata.json earlier runs left: no
\* file, or records written when an article had another body, url or title
Hashes == {get_article_hash(m) : m \in Markdowns}

\* a record of an earlier run, written under a title the article no longer has
StoreRecords(id) ==
    {[key |-> id, hash |-> h, url |-> u, title |-> NumTitles + 1,
      filename |-> Filename(id), last_updated |-> 0] : h \in Hashes, u \in Urls}

Stores ==
    {st \in SeqsUpTo(UNION {StoreRecords(id) : id \in IDS}, NumIds) :
        \A a, b \in DOMAIN st : a # b => st[a].key # st[b].key}

EngineInit ==
    /\ metaFile \in {[exists |-> FALSE, content |-> <<>>]}
                    \cup {[exists |-> TRUE, content |-> Dump(st)] : st \in Stores}
    /\ files = <<>>
    /\ registered = {}
    /\ attached = {}
    /\ pc = "idle"
    /\ run = 0
    /\ apiKey = TRUE
    /\ limit = 0
    /\ page = 1
    /\ articles = <<>>
    /\ articles_to_scrape = <<>>
    /\ i = 1
    /\ metadata = <<>>
    /\ stats = ZeroStats
    /\ new_articles = <<>>
    /\ upIdx = 1
    /\ uploaded_count = 0
    /\ failed_count = 0
    /\ file_id = NoObject
    /\ result = NoResult
    /\ exitCode = 0
    /\ calls = <<>>
    /\ pageLog = <<>>
    /\ classLog = <<>>
    /\ scrapeOK = FALSE
    /\ prevLog = <<>>
    /\ crashPending = {}
    /\ storeAtStart = metaFile
    /\ cacheAtStart = files
    /\ crashLog = <<>>
    /\ crashMeta = <<>>

\* scrape_all is entered and fetch_articles_list hands it some list
EngineStart ==
    /\ pc = "idle"
    /\ run < MaxRuns
    /\ run' = run + 1
    /\ apiKey' = TRUE
    /\ limit' = MaxLimit
    /\ articles' \in SeqsOver(IDS, MaxPages * PerPage)
    /\ pc' = "listed"
    /\ storeAtStart' = metaFile
    /\ cacheAtStart' = files
    /\ UNCHANGED <<durable, page, engineVars, uploadVars, exitCode,
                   calls, pageLog, classLog, scrapeOK, prevLog, crashPending,
                   crashLog, crashMeta>>

\* the process is killed during the for-loop of scrape_all
KilledInLoop == pc = "loop" /\ Crash

\* the steps of scrape_all up to its return, and the kill during its loop
\* that is followed by a fresh start
EngineNext ==
    \/ EngineStart
    \/ ScrapeBegin
    \/ ProcessArticle
    \/ SaveOpen
    \/ SaveChunk
    \/ KilledInLoop

EngineSpec == EngineInit /\ [][EngineNext]_vars

\* ============================================================ properties
\* what the properties read off the history
ArgsOf(op) == [k \in DOMAIN CallsOf(op) |-> CallsOf(op)[k].arg]

IsPrefix(s, t) == Len(s) <= Len(t) /\ s = SubSeq(t, 1, Len(s))

\* the markdown a fetch response normalises to
MarkdownOf(resp) == clean_html_to_markdown(resp.body, resp.html_url)

\* a response that gives usable content: success, an article, and text
\* beyond the header line
UsableContent(resp) ==
    /\ resp.status = 200
    /\ resp.hasArticle
    /\ MarkdownOf(resp) # <<>>
    /\ MarkdownOf(resp) # <<resp.html_url>>

\* the step just taken processed one descriptor
Processed == Len(classLog') = Len(classLog) + 1

\* scrape_all has returned normally in this run
EngineReturned == pc \in {"step2", "upload", "register", "attach", "done"} /\ scrapeOK

\* the records of the durable store file
DurableStore == IF Parses(metaFile.content) THEN Parse(metaFile.content) ELSE <<>>

\* the remote index holds the file of this record with this record's content
InIndex(rec) ==
    \E o \in attached : o.name = rec.filename /\ get_article_hash(o.content) = rec.hash

\* ---------------------------------------------------------------- C1
\* C1: no missed updates: when a pipeline run with its credential has run
\* to completion, whatever register and attach answered, every fingerprint
\* the durable store holds belongs to content that was attached to the
\* remote index (at that point nothing is left to send, and a later run
\* re-sends an id only when its fingerprint differs from the stored one).
C1_NoMissedUpdates ==
    (pc = "done" /\ exitCode = 0 /\ apiKey /\ scrapeOK)
        => \A k \in DOMAIN DurableStore : InIndex(DurableStore[k])

\* ---------------------------------------------------------------- C2
\* C2: a descriptor with usable content is counted Added iff its id is not
\* in the store at that moment, Updated iff it is there with another
\* fingerprint, Unchanged iff it is there with the same fingerprint; after
\* Added the store has one more record, for this id and with the new
\* fingerprint, and after Updated the id's record has the new fingerprint.
C2_Classification ==
    [][(Processed /\ UsableContent(Last(classLog').resp)) =>
        LET id == Last(classLog').id
            h == get_article_hash(MarkdownOf(Last(classLog').resp))
            present == HasKey(metadata, id)
            same == present /\ Lookup(metadata, id).hash = h
        IN  /\ ~present => stats' = [stats EXCEPT !.added = @ + 1]
            /\ (present /\ ~same) => stats' = [stats EXCEPT !.updated = @ + 1]
            /\ same => stats' = [stats EXCEPT !.skipped = @ + 1]
            /\ HasKey(metadata', id) /\ Lookup(metadata', id).hash = h
            /\ Len(metadata') = Len(metadata) + (IF present THEN 0 ELSE 1)
            /\ Keys(metadata') = Keys(metadata) \cup {id}
      ]_vars

\* an empty store and a catalog of two usable articles: both Added, the
\* DeltaSet is their two files in order, the store has two records
C2_Witness ==
    /\ EngineReturned
    /\ Len(classLog) = 2
    /\ stats = [added |-> 2, updated |-> 0, skipped |-> 0, failed |-> 0]
    /\ new_articles = <<Filename(classLog[1].id), Filename(classLog[2].id)>>
    /\ Len(DurableStore) = 2

\* ---------------------------------------------------------------- C3
\* the filenames of the entries classified Added or Updated, in order
DeltaOf(log) ==
    LET hits == SelectSeq(log, LAMBDA e : e.cls \in {"added", "updated"})
    IN  [k \in DOMAIN hits |-> Filename(hits[k].id)]

\* C3: the DeltaSet is exactly the filenames of the descriptors classified
\* Added or Updated in this run, in listing order; its length is
\* added + updated; no file of an Unchanged or Failed descriptor is in it.
C3_DeltaSetExact ==
    /\ new_articles = DeltaOf(classLog)
    /\ Len(new_articles) = stats.added + stats.updated
    /\ \A k \in DOMAIN classLog :
        classLog[k].cls \in {"skipped", "failed"}
            => Filename(classLog[k].id) \notin Range(new_articles)

C3_Witness ==
    /\ EngineReturned
    /\ stats.updated = 1
    /\ stats.skipped + stats.failed = 1
    /\ Len(new_articles) = 1

\* ---------------------------------------------------------------- C4
\* this entry's article was classified by the preceding completed run and
\* normalises to the same markdown now
SameAsBefore(e) ==
    /\ UsableContent(e.resp)
    /\ \E j \in DOMAIN prevLog :
        /\ prevLog[j].id = e.id
        /\ prevLog[j].cls \in {"added", "updated", "skipped"}
        /\ MarkdownOf(prevLog[j].resp) = MarkdownOf(e.resp)

\* C4: no redundant re-uploads: an article classified Added, Updated or
\* Unchanged by the preceding completed run and whose normalised content is
\* the same in this run is classified Unchanged, is not in the DeltaSet, and
\* gets no register and no attach call.
C4_NoRedundantUpload ==
    \A k \in DOMAIN classLog :
        SameAsBefore(classLog[k]) =>
            /\ classLog[k].cls = "skipped"
            /\ Filename(classLog[k].id) \notin Range(new_articles)
            /\ Filename(classLog[k].id) \notin Range(ArgsOf("register"))
            /\ Filename(classLog[k].id) \notin Range(ArgsOf("attach"))

\* a second run met unchanged content next to changed content and uploads
C4_Witness ==
    /\ pc = "done"
    /\ \E k \in DOMAIN classLog : SameAsBefore(classLog[k])
    /\ ArgsOf("register") # <<>>

\* ---------------------------------------------------------------- C5
\* this run fetched usable content for the article of file f
FetchedUsable(f) ==
    \E k \in DOMAIN classLog :
        Filename(classLog[k].id) = f /\ UsableContent(classLog[k].resp)

\* C5: when the preceding process stopped after the store was persisted
\* and before every file of its DeltaSet was uploaded, the next run that
\* runs to completion and again gets usable content for those articles hands
\* the files that were not uploaded to the uploader.
C5_CrashRecovered ==
    (/\ pc = "done"
     /\ exitCode = 0
     /\ scrapeOK
     /\ crashPending # {}
     /\ \A f \in crashPending : FetchedUsable(f))
        => crashPending \subseteq Range(new_articles)

\* ---------------------------------------------------------------- C6
\* C6: a run started without the API key does no work: no catalog page
\* request, no article fetch, no local file write, no write of the store.
C6_ConfigMissingAbortsFirst ==
    (pc # "idle" /\ ~apiKey) =>
        \A k \in DOMAIN calls : calls[k].op \notin {"page", "fetch", "write", "save"}

\* ---------------------------------------------------------------- C7
\* C7: a descriptor whose fetch gives no content, or whose normalised text
\* is empty or the header line alone, changes nothing for its id: no file is
\* written, no store record is changed or removed, nothing is appended to
\* the DeltaSet, failed is incremented and nothing else, and the loop goes on
\* to the next descriptor.
C7_FailedMutatesNothing ==
    [][(Processed /\ ~UsableContent(Last(classLog').resp)) =>
        /\ files' = files
        /\ metadata' = metadata
        /\ metaFile' = metaFile
        /\ new_articles' = new_articles
        /\ stats' = [stats EXCEPT !.failed = @ + 1]
        /\ ArgsOf("write")' = ArgsOf("write")
        /\ pc' = "loop"
        /\ i' = i + 1
      ]_vars

\* a header-only article whose id already has a record was counted failed,
\* and a later descriptor is still to come
C7_Witness ==
    /\ pc = "loop"
    /\ classLog # <<>>
    /\ Last(classLog).cls = "failed"
    /\ Last(classLog).resp.hasArticle
    /\ Last(classLog).resp.body = 1
    /\ HasKey(metadata, Last(classLog).id)
    /\ i <= Len(articles_to_scrape)

\* ---------------------------------------------------------------- C8
\* C8: whenever the process has stopped, at whatever moment, the store file
\* is absent (never written) or holds a complete document.
C8_StoreReadableAfterCrash ==
    pc = "idle" => (~metaFile.exists \/ Parses(metaFile.content))

\* ---------------------------------------------------------------- C9
\* the first min(limit, length) descriptors of the listing
FirstLimit == SubSeq(articles, 1, Min(limit, Len(articles)))

\* C9: the engine fetches the first min(limit, length of the listing)
\* descriptors in listing order and no others; with limit 0 or an empty
\* listing all four counts are 0, the DeltaSet is empty, and there is no
\* article fetch, no register and no attach call.
C9_FirstLimitOnly ==
    /\ IsPrefix(ArgsOf("fetch"), FirstLimit)
    /\ (pc = "dump" \/ EngineReturned) =>
        /\ ArgsOf("fetch") = FirstLimit
        /\ Len(classLog) = Min(limit, Len(articles))
    /\ (EngineReturned /\ (limit = 0 \/ articles = <<>>)) =>
        /\ stats = ZeroStats
        /\ new_articles = <<>>
        /\ ArgsOf("fetch") = <<>>
        /\ ArgsOf("register") = <<>>
        /\ ArgsOf("attach") = <<>>

\* a listing of two descriptors cut to the first by limit 1
C9_Witness ==
    /\ pc = "done"
    /\ scrapeOK
    /\ limit = 1
    /\ Len(articles) = 2
    /\ ArgsOf("fetch") = <<articles[1]>>

\* ---------------------------------------------------------------- C10
\* a response after which the claim lets no further page be requested
StopsListing(resp) ==
    resp.status # 200 \/ resp.items = <<>> \/ ~resp.next_page

RECURSIVE ItemsOf(_)
ItemsOf(log) ==
    IF log = <<>> THEN <<>>
    ELSE (IF Head(log).status = 200 THEN Head(log).items ELSE <<>>) \o ItemsOf(Tail(log))

ListerReturned == pc \notin {"idle", "list"}

\* C10: the lister requests pages 1, 2, 3, ... in order, requests nothing
\* after a page that is empty, has no next-page indicator or was not
\* answered with success, and hands back the items of the successfully
\* fetched pages in order.
C10_ListerStops ==
    /\ ArgsOf("page") = [k \in 1..Len(pageLog) |-> k]
    /\ \A k \in DOMAIN pageLog : k < Len(pageLog) => ~StopsListing(pageLog[k])
    /\ pc = "list" => \A k \in DOMAIN pageLog : ~StopsListing(pageLog[k])
    /\ ListerReturned =>
        /\ pageLog # <<>>
        /\ StopsListing(Last(pageLog))
        /\ articles = ItemsOf(pageLog)

\* the second page failed and the first page's items were returned
C10_Witness ==
    /\ pc = "listed"
    /\ Len(pageLog) = 2
    /\ pageLog[2].status # 200
    /\ articles = pageLog[1].items
    /\ articles # <<>>

\* ---------------------------------------------------------------- C11
\* the register and attach calls of this run, in order
UploadEvents == SelectSeq(calls, LAMBDA e : e.op \in {"register", "attach"})

\* the events the step just taken appended
NewEvents == SubSeq(calls', Len(calls) + 1, Len(calls'))

\* an attach call comes right after the successful register call for the
\* same file, and a register call comes first or right after an attach call
\* or a failed register call
OneAttemptEach ==
    \A k \in DOMAIN UploadEvents :
        LET e == UploadEvents[k]
        IN  /\ e.op = "attach" =>
                /\ k > 1
                /\ UploadEvents[k - 1].op = "register"
                /\ UploadEvents[k - 1].ok
                /\ UploadEvents[k - 1].arg = e.arg
            /\ (e.op = "register" /\ k > 1) =>
                (UploadEvents[k - 1].op = "attach" \/ ~UploadEvents[k - 1].ok)

\* C11: per filename of the uploader: a failed register counts the file
\* failed and no attach is called for it; a failed attach after a successful
\* register counts it failed and the registered object is left alone (nothing
\* is removed from the file service); both succeeding counts it uploaded; and
\* no register or attach call is repeated for a position of the list.
C11_PerFileOutcome ==
    [][/\ registered \subseteq registered'
       /\ attached \subseteq attached'
       /\ OneAttemptEach'
       /\ Len(CallsOf("register"))' <= Len(new_articles)
       /\ \A k \in DOMAIN NewEvents :
            LET e == NewEvents[k]
            IN  /\ (e.op = "register" /\ ~e.ok) =>
                    /\ failed_count' = failed_count + 1
                    /\ uploaded_count' = uploaded_count
                    /\ registered' = registered
                    /\ attached' = attached
                    /\ pc' # "attach"
                    /\ Len(NewEvents) = 1
                /\ (e.op = "register" /\ e.ok) =>
                    /\ failed_count' = failed_count
                    /\ uploaded_count' = uploaded_count
                    /\ pc' = "attach"
                /\ (e.op = "attach" /\ ~e.ok) =>
                    /\ failed_count' = failed_count + 1
                    /\ uploaded_count' = uploaded_count
                    /\ registered' = registered
                    /\ attached' = attached
                /\ (e.op = "attach" /\ e.ok) =>
                    /\ uploaded_count' = uploaded_count + 1
                    /\ failed_count' = failed_count
                    /\ attached' = attached \cup {file_id}
      ]_vars

\* three files: one not registered, one registered and not attached (its
\* object stays on the file service), one uploaded
C11_Witness ==
    /\ result = [returned |-> TRUE, uploaded |-> 1, failed |-> 2, total |-> 3]
    /\ Len(UploadEvents) = 5
    /\ \E k \in DOMAIN UploadEvents : UploadEvents[k].op = "register" /\ ~UploadEvents[k].ok
    /\ \E k \in DOMAIN UploadEvents : UploadEvents[k].op = "attach" /\ ~UploadEvents[k].ok
    /\ Cardinality(attached) = 1
    /\ \E o \in registered : o \notin attached

\* ---------------------------------------------------------------- C12
\* C12: the uploader calls register for the filenames of its input in
\* input order, once per position, whatever the earlier files' outcomes;
\* when it returns it has done so for every position, and
\* uploaded + failed = total = the length of the input.
C12_AllAttempted ==
    /\ IsPrefix(ArgsOf("register"), new_articles)
    /\ pc = "done" => result.returned
    /\ result.returned =>
        /\ ArgsOf("register") = new_articles
        /\ result.total = Len(new_articles)
        /\ result.uploaded + result.failed = result.total

\* the first file was not registered and the two after it were uploaded
C12_Witness ==
    /\ result.returned
    /\ Len(new_articles) = 3
    /\ ~calls[1].ok
    /\ result.uploaded = 2
    /\ result.failed = 1

\* ---------------------------------------------------------------- C13
\* C13: called with an empty list the uploader returns uploaded 0,
\* failed 0, total 0 as a normal return value, having made no call to the
\* file service or the vector store.
C13_EmptyDelta ==
    (new_articles = <<>> /\ pc = "done") =>
        /\ result = [returned |-> TRUE, uploaded |-> 0, failed |-> 0, total |-> 0]
        /\ calls = <<>>
        /\ registered = {}
        /\ attached = {}

C13_Witness ==
    /\ new_articles = <<>>
    /\ pc = "done"
    /\ upIdx = 1
    /\ files # <<>>

\* ---------------------------------------------------------------- C14
\* a store record without its timestamp
StripTime(rec) == [rec EXCEPT !.last_updated = 0]

StripTimes(meta) == [k \in DOMAIN meta |-> StripTime(meta[k])]

\* the articles and responses a log's classified entries were made from
InputsOf(log) == [k \in DOMAIN log |-> [id |-> log[k].id, resp |-> log[k].resp]]

\* C14: a run killed during its loop leaves nothing behind that changes
\* the next run: for an article that answers the restarted run as it
\* answered the killed one, the classification is the same, the file is in
\* the DeltaSet in the one iff in the other, and the store record is the
\* same (the timestamp, which is the clock's, aside); when the restarted run
\* returns having met the very inputs the killed run had met, its DeltaSet
\* and the store it has written are those the killed run had built.
C14_RestartSame ==
    /\ \A k \in DOMAIN classLog, j \in DOMAIN crashLog :
        (classLog[k].id = crashLog[j].id /\ classLog[k].resp = crashLog[j].resp) =>
            LET id == classLog[k].id
            IN  /\ classLog[k].cls = crashLog[j].cls
                /\ (Filename(id) \in Range(new_articles))
                        <=> (crashLog[j].cls \in {"added", "updated"})
                /\ HasKey(metadata, id)
                /\ HasKey(crashMeta, id)
                /\ StripTime(Lookup(metadata, id)) = StripTime(Lookup(crashMeta, id))
                /\ EngineReturned =>
                    /\ HasKey(DurableStore, id)
                    /\ StripTime(Lookup(DurableStore, id)) = StripTime(Lookup(crashMeta, id))
    /\ (/\ EngineReturned
        /\ crashLog # <<>>
        /\ InputsOf(Classified(classLog)) = InputsOf(crashLog)) =>
            /\ new_articles = DeltaOf(crashLog)
            /\ StripTimes(DurableStore) = StripTimes(crashMeta)

\* a run was killed after it had added one article and updated another;
\* the restarted run met the same two responses and returned
C14_Witness ==
    /\ EngineReturned
    /\ Len(crashLog) = 2
    /\ InputsOf(Classified(classLog)) = InputsOf(crashLog)
    /\ {crashLog[1].cls, crashLog[2].cls} = {"added", "updated"}
    /\ Len(new_articles) = 2

\* ---------------------------------------------------------------- C15
\* the step just taken wrote the last chunk of the store of a run in which
\* every descriptor was classified Unchanged
SavedAllUnchanged ==
    /\ pc = "dump"
    /\ pc' = "step2"
    /\ classLog # <<>>
    /\ \A k \in DOMAIN classLog : classLog[k].cls = "skipped"

\* C15: a descriptor with usable content whose id is in the store with the
\* same fingerprint writes no file, leaves every record of the store as it
\* was and appends nothing to the DeltaSet; after a run in which every
\* descriptor was Unchanged the store file is what it was before the run.
C15_UnchangedFrame ==
    [][/\ (/\ Processed
           /\ UsableContent(Last(classLog').resp)
           /\ HasKey(metadata, Last(classLog').id)
           /\ Lookup(metadata, Last(classLog').id).hash
                = get_article_hash(MarkdownOf(Last(classLog').resp))) =>
            /\ files' = files
            /\ ArgsOf("write")' = ArgsOf("write")
            /\ metadata' = metadata
            /\ metaFile' = metaFile
            /\ new_articles' = new_articles
       /\ SavedAllUnchanged => metaFile' = storeAtStart
      ]_vars

\* two stored articles were met unchanged and the store was saved
C15_Witness ==
    /\ EngineReturned
    /\ Len(classLog) = 2
    /\ \A k \in DOMAIN classLog : classLog[k].cls = "skipped"
    /\ metaFile = storeAtStart
    /\ Len(DurableStore) = 2
    /\ files = <<>>

\* ---------------------------------------------------------------- C16
\* C16: a descriptor with usable content whose id is in the store with
\* another fingerprint changes the fingerprint and the timestamp of that
\* id's record and nothing else: its title, url and filename stay (also when
\* the body is the same and only the article's url is new), the records of
\* the other ids stay, and no record is added or removed.
C16_UpdatedFrame ==
    [][(/\ Processed
        /\ UsableContent(Last(classLog').resp)
        /\ HasKey(metadata, Last(classLog').id)
        /\ Lookup(metadata, Last(classLog').id).hash
             # get_article_hash(MarkdownOf(Last(classLog').resp))) =>
            /\ Len(metadata') = Len(metadata)
            /\ \A k \in DOMAIN metadata :
                IF metadata[k].key = Last(classLog').id
                THEN /\ metadata'[k].key = metadata[k].key
                     /\ metadata'[k].title = metadata[k].title
                     /\ metadata'[k].url = metadata[k].url
                     /\ metadata'[k].filename = metadata[k].filename
                     /\ metadata'[k].hash = get_article_hash(MarkdownOf(Last(classLog').resp))
                     /\ metadata'[k].last_updated = run
                ELSE metadata'[k] = metadata[k]
      ]_vars

\* an article stored under url 1 and an older title came back with the same
\* body under url 2: its record has the new fingerprint and timestamp and the
\* old url and title, next to an untouched record of another id
C16_Witness ==
    /\ pc = "loop"
    /\ classLog # <<>>
    /\ Last(classLog).cls = "updated"
    /\ Len(metadata) = 2
    /\ LET rec == Lookup(metadata, Last(classLog).id)
           resp == Last(classLog).resp
       IN  /\ rec.url # resp.html_url
           /\ rec.title # resp.title
           /\ rec.hash = get_article_hash(MarkdownOf(resp))
           /\ rec.last_updated = run
    /\ \E k \in DOMAIN metadata :
        metadata[k].key # Last(classLog).id /\ metadata[k].last_updated = 0

\* ---------------------------------------------------------------- C17
\* C17: between two consecutive article fetches of a run there is a delay
\* step, whatever the earlier descriptor was classified.
C17_DelayBetweenFetches ==
    \A a, b \in DOMAIN calls :
        (/\ a < b
         /\ calls[a].op = "fetch"
         /\ calls[b].op = "fetch")
            => \E c \in (a + 1)..(b - 1) : calls[c].op = "sleep"

\* ---------------------------------------------------------------- C18
\* C18: between the last call made for one filename and the register call
\* for the next there is a delay step, whatever the earlier file's outcome.
C18_DelayBetweenUploads ==
    \A a, b \in DOMAIN calls :
        (/\ a < b
         /\ calls[a].op \in {"register", "attach"}
         /\ calls[b].op = "register")
            => \E c \in (a + 1)..(b - 1) : calls[c].op = "sleep"

\* ---------------------------------------------------------------- C19
\* the two responses carry the same article content: they may differ in
\* title and updated_at
SameContent(r1, r2) ==
    /\ r1.status = r2.status
    /\ r1.hasArticle = r2.hasArticle
    /\ r1.body = r2.body
    /\ r1.html_url = r2.html_url

\* the two logs are about the same ids with the same content, in order
SameCatalog(log1, log2) ==
    /\ Len(log1) = Len(log2)
    /\ \A k \in DOMAIN log1 :
        log1[k].id = log2[k].id /\ SameContent(log1[k].resp, log2[k].resp)

Total(st) == st.added + st.updated + st.skipped + st.failed

\* C20: at every point of a run the four counts add up to the number of
\* descriptors processed so far, and when scrape_all has returned they add
\* up to min(limit, length of the listing).
C20_CountsAddUp ==
    /\ Total(stats) = Len(ArgsOf("fetch"))
    /\ Total(stats) = Len(classLog)
    /\ pc = "loop" => Total(stats) = i - 1
    /\ EngineReturned => Total(stats) = Min(limit, Len(articles))

\* one article without content and one unchanged out of a listing of two
C20_Witness ==
    /\ EngineReturned
    /\ limit = 2
    /\ stats = [added |-> 0, updated |-> 0, skipped |-> 1, failed |-> 1]
    /\ Len(articles) = 2

\* ---------------------------------------------------------------- C21
\* the records of the store file the run found
StartStore == IF Parses(storeAtStart.content) THEN Parse(storeAtStart.content) ELSE <<>>

\* every record of the store has its file {id}.md in the cache, names it in
\* its filename field, and carries the fingerprint of the file's content
CacheMatches(store, cache) ==
    \A k \in DOMAIN store :
        /\ Filename(store[k].key) \in DOMAIN cache
        /\ store[k].filename = Filename(store[k].key)
        /\ get_article_hash(cache[Filename(store[k].key)]) = store[k].hash

\* C21: when scrape_all returns from a run that found the store and the
\* cache matching (every stored id has its file {id}.md, named in the record,
\* with the record's fingerprint), the store it has written and the cache
\* match again.
C21_StoreMatchesCache ==
    (EngineReturned /\ CacheMatches(StartStore, cacheAtStart))
        => CacheMatches(DurableStore, files)

\* a second run found two stored articles with their files, rewrote the file
\* of the one that had changed and left the other
C21_Witness ==
    /\ EngineReturned
    /\ Len(StartStore) = 2
    /\ CacheMatches(StartStore, cacheAtStart)
    /\ stats.updated = 1
    /\ stats.added = 0
    /\ files # cacheAtStart
    /\ Len(DurableStore) = 2

\* ---------------------------------------------------------------- C22
\* C22: from one engine run to the next the store loses no id: when the
\* process has stopped, every id the store held when the run started is still
\* in the store.
C22_IdsNeverShrink ==
    pc = "idle" => Keys(StartStore) \subseteq Keys(DurableStore)

====
